---------------------------- MODULE Spec2Model ----------------------------
(***************************************************************************)
(* State-machine model of the two Streamlit scripts of SwipeAgency,        *)
(* src/swipe.py and src/eg.py: the Connect handler with init_database, and *)
(* the chat input handler with get_response (the SQL chain, the parallel   *)
(* schema/db.run step, the response chain and, in swipe.py, the report     *)
(* branch).                                                                *)
(*                                                                         *)
(* A Streamlit script is re-run from top to bottom for every widget event. *)
(* One re-run is one handler: SetForm, Connect or Submit.  A chat turn is  *)
(* split at its external calls (db.get_table_info, the completion         *)
(* service, db.run) so that their order and overlap are visible; widget    *)
(* events are taken only between turns (pc = "Idle").                      *)
(*                                                                         *)
(* Texts are sequences of one-character strings.  Python's None is the     *)
(* value PyNone.                                                           *)
(***************************************************************************)
EXTENDS Integers, Sequences, FiniteSets, TLC

VARIABLES
    script,        \* which of the two scripts runs: "swipe" or "eg"
    env,           \* os.environ after load_dotenv(): DB_USER .. DB_SERVICE
    form,          \* the five sidebar text inputs
    db,            \* st.session_state "db": key missing, None, or a handle
    built,         \* the last init_database call: its arguments and its URI
    chat_history,  \* st.session_state.chat_history
    pc,            \* position of the running turn, "Idle" between re-runs
    user_query,    \* the question of the running (or last) turn
    branch,        \* "none", "regular" or "report": path taken in get_response
    query,         \* text returned by the SQL chain in this turn, or PyNone
    schemaT,       \* the schema step of the second assign (a pool thread)
    runT,          \* the response step of the second assign (a pool thread)
    run_arg,       \* the text db.run was called with in this turn
    resp_input,    \* the "response" value handed to the response prompt
    calls,         \* external calls made in this turn, by kind
    len0,          \* Len(chat_history) when the running turn was submitted
    outcome,       \* "none", "running", "answered" or "failed"
    fail_stage,    \* where the turn failed
    chat_msg,      \* what the chat area shows beyond the transcript
    sidebar,       \* what the sidebar shows under the form
    escaped        \* an exception left the chat handler's try block

vars == <<script, env, form, db, built, chat_history, pc, user_query, branch,
          query, schemaT, runT, run_arg, resp_input, calls, len0, outcome,
          fail_stage, chat_msg, sidebar, escaped>>

-----------------------------------------------------------------------------
(* Bounds *)

\* Submit is disabled once the transcript holds this many messages.
MaxHistory == 4

-----------------------------------------------------------------------------
(* Values *)

PyNone == "<None>"

\* str(): what an f-string puts for a value.
Fmt(v) == IF v = PyNone THEN "None" ELSE v

Scripts == {"swipe", "eg"}

EnvKeys == {"DB_USER", "DB_PASSWORD", "DB_HOST", "DB_PORT", "DB_SERVICE"}

EnvUnset == [k \in EnvKeys |-> PyNone]

EnvAll ==
    [k \in EnvKeys |->
        CASE k = "DB_USER" -> "envuser"
          [] k = "DB_PASSWORD" -> "envpw"
          [] k = "DB_HOST" -> "envhost"
          [] k = "DB_PORT" -> "1522"
          [] k = "DB_SERVICE" -> "envsvc"]

\* The environments the scripts are started in.
Envs == {EnvUnset, EnvAll}

\* os.getenv(key, default)
getenv(e, key, default) == IF e[key] = PyNone THEN default ELSE e[key]

EmptyForm == [Host |-> "", Port |-> "", User |-> "", Password |-> "", Service_Name |-> ""]

FullForm ==
    [Host |-> "dbhost", Port |-> "1521", User |-> "scott", Password |-> "tiger",
     Service_Name |-> "swipedb"]

NoPortForm == [FullForm EXCEPT !.Port = ""]

\* What the operator types into the sidebar.
Forms == {EmptyForm, FullForm, NoPortForm}


-----------------------------------------------------------------------------
(* Texts *)

\* None where the code holds a str or None (st.chat_input, a chain's output).
PyNoneText == <<PyNone>>

Space == " "

\* str.lower() on one character, for the letters the questions use.
LowerChar(c) ==
    CASE c = "G" -> "g" [] c = "E" -> "e" [] c = "N" -> "n" [] c = "R" -> "r"
      [] c = "A" -> "a" [] c = "T" -> "t" [] c = "P" -> "p" [] c = "O" -> "o"
      [] c = "H" -> "h" [] c = "I" -> "i"
      [] OTHER -> c

\* str.lower()
Lower(s) == [i \in 1..Len(s) |-> LowerChar(s[i])]

\* str.strip(): drops the whitespace at both ends.
RECURSIVE LStrip(_)
LStrip(s) == IF s # <<>> /\ Head(s) = Space THEN LStrip(Tail(s)) ELSE s

RECURSIVE RStrip(_)
RStrip(s) ==
    IF s # <<>> /\ s[Len(s)] = Space THEN RStrip(SubSeq(s, 1, Len(s) - 1)) ELSE s

Strip(s) == RStrip(LStrip(s))

\* sub in s
Contains(sub, s) ==
    \E i \in 0..(Len(s) - Len(sub)) : SubSeq(s, i + 1, i + Len(sub)) = sub

\* The trigger phrase of get_response.
ReportPhrase ==
    <<"g", "e", "n", "e", "r", "a", "t", "e", " ", "r", "e", "p", "o", "r", "t">>

\* The test without .lower(): "generate report" in user_query
IsReportRequestCaseSensitive(q) == Contains(ReportPhrase, q)

\* "generate report" in user_query.lower()
IsReportRequest(q) == Contains(ReportPhrase, Lower(q))

\* The test without .strip(): user_query is not None and user_query != ""
AcceptedUnstripped(q) == q # PyNoneText /\ q # <<>>

\* user_query is not None and user_query.strip() != ""
Accepted(q) == q # PyNoneText /\ Strip(q) # <<>>

QHi == <<"h", "i">>
QReportMixed ==
    <<"p", "l", "s", " ", "G", "e", "n", "e", "r", "a", "t", "e", " ", "R", "E",
      "P", "O", "R", "T", "!">>
QNearMiss == <<" ", "r", "e", "p", "o", "r", "t", " ", "g", "e", "n", "e", "r", "a", "t", "e">>
QReportLower == ReportPhrase
QEmpty == <<>>
QBlank == <<" ", " ">>

\* What st.chat_input returns in a re-run.
Questions ==
    {PyNoneText, QEmpty, QBlank, QHi, QReportMixed, QReportLower, QNearMiss}

\* What the completion service returns for the SQL prompt.
SqlTexts == {<<>>, <<"S", "Q", "L">>}

\* What the completion service returns for the response prompt.
AnswerTexts == {<<"o", "k">>}

HumanMessage(t) == [role |-> "human", content |-> t]

AIMessage(t) == [role |-> "ai", content |-> t]

Greeting == <<"H", "e", "l", "l", "o">>

-----------------------------------------------------------------------------
(* Connection *)

NoUri ==
    [user |-> PyNone, password |-> PyNone, host |-> PyNone, port |-> PyNone,
     service_name |-> PyNone]

\* db_uri of init_database: the five parts the f-string puts into the URI.
DbUri(user, password, host, port, service_name) ==
    [user |-> Fmt(user), password |-> Fmt(password), host |-> Fmt(host),
     port |-> Fmt(port), service_name |-> Fmt(service_name)]

\* swipe.py: init_database(user, password, host, database, port = 1521).
InitDatabaseSwipe(e, user, password, host, database, port) ==
    DbUri(getenv(e, "DB_USER", user),
          getenv(e, "DB_PASSWORD", password),
          getenv(e, "DB_HOST", host),
          getenv(e, "DB_PORT", port),
          getenv(e, "DB_SERVICE", "orcl"))

\* eg.py: init_database reads all five values from the environment.
InitDatabaseEg(e, user, password, host, database, port) ==
    DbUri(getenv(e, "DB_USER", PyNone),
          getenv(e, "DB_PASSWORD", PyNone),
          getenv(e, "DB_HOST", PyNone),
          getenv(e, "DB_PORT", PyNone),
          getenv(e, "DB_SERVICE", PyNone))

\* The call in the Connect handler: five positional arguments, in this order.
ConnectCall(s, e, f) ==
    IF s = "swipe"
    THEN InitDatabaseSwipe(e, f.User, f.Password, f.Host, f.Port, f.Service_Name)
    ELSE InitDatabaseEg(e, f.User, f.Password, f.Host, f.Port, f.Service_Name)

\* eg.py's text inputs start with the environment's values or a default.
DefaultFormEg(e) ==
    [Host |-> getenv(e, "DB_HOST", "localhost"),
     Port |-> getenv(e, "DB_PORT", "1521"),
     User |-> getenv(e, "DB_USER", "root"),
     Password |-> getenv(e, "DB_PASSWORD", ""),
     Service_Name |-> getenv(e, "DB_SERVICE", "orcl")]

DbMissing == [state |-> "missing", uri |-> NoUri]

DbNone == [state |-> "none", uri |-> NoUri]

DbHandle(uri) == [state |-> "handle", uri |-> uri]

\* st.session_state.get("db") is truthy
HasDb(d) == d.state = "handle"

\* all([host, port, user, password, service_name])
AllFilled(f) ==
    /\ f.Host # "" /\ f.Port # "" /\ f.User # "" /\ f.Password # ""
    /\ f.Service_Name # ""

NotBuilt == [called |-> FALSE, args |-> EmptyForm, uri |-> NoUri]

\* The sidebar's last lines in swipe.py: shown in every re-run with a handle.
SidebarAlready(s, d) == IF s = "swipe" /\ HasDb(d) THEN {"already"} ELSE {}


-----------------------------------------------------------------------------
(* Exceptions and LangChain's chain construction *)

Error == "error"

\* A completion call that raises instead of returning text.
Raises == <<"<raise>">>

\* The exception classes the turn can raise; all derive from Exception.
ExceptionClasses == {"AttributeError", "TypeError", "ExternalError"}

\* A handler that catches the external services' errors only.
CaughtExternalOnly(exc) == exc = "ExternalError"

\* except Exception as e: of the chat handler.
Caught(exc) == exc \in ExceptionClasses

\* coerce_to_runnable, applied by RunnablePassthrough.assign to every keyword
\* argument: a Runnable, a callable or a dict is accepted, anything else is a
\* TypeError.
CoerceToRunnable(kind) == kind \in {"runnable", "callable", "dict"}

\* The keyword argument of the report chain's assign: chat_history, a list.
ReportAssignArg == "list"

\* A second assign that takes the schema from the first chain's input.
SecondAssignResponseOnly == {"response"}

\* The keys of the second assign of the response chain; RunnableParallel
\* submits one pool task per key.
SecondAssignSteps == {"schema", "response"}

NoCalls ==
    [schema |-> 0, sql_llm |-> 0, run |-> 0, resp_llm |-> 0, report_llm |-> 0,
     from_uri |-> 0]

RowsText == <<"r", "o", "w", "s">>

\* user_query = st.chat_input(...) and the per-run locals of a fresh re-run.
StartRerun(q) ==
    /\ user_query' = q
    /\ branch' = "none"
    /\ query' = PyNoneText
    /\ schemaT' = "idle"
    /\ runT' = "idle"
    /\ run_arg' = PyNoneText
    /\ resp_input' = PyNoneText
    /\ len0' = Len(chat_history)
    /\ fail_stage' = "none"

\* A handler whose except clause also appends the message as an assistant Turn.
RaiseRecordsTurn(exc, stage) ==
    /\ pc' = "Idle"
    /\ outcome' = "failed"
    /\ fail_stage' = stage
    /\ chat_msg' = IF Caught(exc) THEN "error" ELSE "traceback"
    /\ escaped' = ~Caught(exc)
    /\ chat_history' = Append(chat_history, AIMessage(<<"F", "a", "i", "l", "e", "d">>))

\* An exception raised inside the handler's try block at the given stage.
Raise(exc, stage) ==
    /\ pc' = "Idle"
    /\ outcome' = "failed"
    /\ fail_stage' = stage
    /\ chat_msg' = IF Caught(exc) THEN "error" ELSE "traceback"
    /\ escaped' = ~Caught(exc)
    /\ UNCHANGED chat_history

-----------------------------------------------------------------------------
(* Initial state *)

Init ==
    /\ script \in Scripts
    /\ env \in Envs
    /\ form = IF script = "swipe" THEN EmptyForm ELSE DefaultFormEg(env)
    /\ db = IF script = "swipe" THEN DbNone ELSE DbMissing
    /\ built = NotBuilt
    /\ chat_history = <<AIMessage(Greeting)>>
    /\ pc = "Idle"
    /\ user_query = PyNoneText
    /\ branch = "none"
    /\ query = PyNoneText
    /\ schemaT = "idle"
    /\ runT = "idle"
    /\ run_arg = PyNoneText
    /\ resp_input = PyNoneText
    /\ calls = NoCalls
    /\ len0 = 1
    /\ outcome = "none"
    /\ fail_stage = "none"
    /\ chat_msg = "none"
    /\ sidebar = {}
    /\ escaped = FALSE

-----------------------------------------------------------------------------
(* Sidebar re-runs *)

\* The operator edits the text inputs: a re-run with no button and no question.
SetForm(f) ==
    /\ pc = "Idle"
    /\ f # form
    /\ form' = f
    /\ StartRerun(PyNoneText)
    /\ calls' = NoCalls
    /\ outcome' = "none"
    /\ chat_msg' = "none"
    /\ sidebar' = SidebarAlready(script, db)
    /\ UNCHANGED <<script, env, db, built, chat_history, pc, escaped>>

\* A Connect handler that connects whenever the button is pressed, whatever
\* the session holds and whatever the form holds.
ConnectSwipeAlways(r) ==
    /\ pc = "Idle"
    /\ script = "swipe"
    /\ StartRerun(PyNoneText)
    /\ outcome' = "none"
    /\ chat_msg' = "none"
    /\ built' = [called |-> TRUE, args |-> form, uri |-> ConnectCall(script, env, form)]
    /\ calls' = [NoCalls EXCEPT !.from_uri = 1]
    /\ IF r = "ok"
       THEN /\ db' = DbHandle(built'.uri)
            /\ sidebar' = {"connected"} \cup SidebarAlready(script, db')
       ELSE /\ db' = db
            /\ sidebar' = {"connection_failed"}
    /\ UNCHANGED <<script, env, form, chat_history, pc, escaped>>

\* swipe.py: Connect pressed.
ConnectSwipe(r) ==
    /\ pc = "Idle"
    /\ script = "swipe"
    /\ StartRerun(PyNoneText)
    /\ outcome' = "none"
    /\ chat_msg' = "none"
    /\ IF ~HasDb(db)
       THEN IF AllFilled(form)
            THEN /\ built' = [called |-> TRUE, args |-> form,
                              uri |-> ConnectCall(script, env, form)]
                 /\ calls' = [NoCalls EXCEPT !.from_uri = 1]
                 /\ IF r = "ok"
                    THEN /\ db' = DbHandle(built'.uri)
                         /\ sidebar' = {"connected"} \cup SidebarAlready(script, db')
                    ELSE /\ db' = db
                         /\ sidebar' = {"connection_failed"}
            ELSE /\ calls' = NoCalls
                 /\ sidebar' = {"fill_fields"}
                 /\ UNCHANGED <<db, built>>
       ELSE /\ calls' = NoCalls
            /\ sidebar' = SidebarAlready(script, db)
            /\ UNCHANGED <<db, built>>
    /\ UNCHANGED <<script, env, form, chat_history, pc, escaped>>

\* eg.py: Connect pressed.
ConnectEg(r) ==
    /\ pc = "Idle"
    /\ script = "eg"
    /\ StartRerun(PyNoneText)
    /\ outcome' = "none"
    /\ chat_msg' = "none"
    /\ built' = [called |-> TRUE, args |-> form, uri |-> ConnectCall(script, env, form)]
    /\ calls' = [NoCalls EXCEPT !.from_uri = 1]
    /\ IF r = "ok"
       THEN /\ db' = DbHandle(built'.uri)
            /\ sidebar' = {"connected"}
       ELSE /\ db' = db
            /\ sidebar' = {"connection_failed"}
    /\ UNCHANGED <<script, env, form, chat_history, pc, escaped>>

-----------------------------------------------------------------------------
(* The chat input handler *)

\* A re-run whose chat input is None, empty or blank: the handler is skipped.
SubmitBlank(q) ==
    /\ pc = "Idle"
    /\ ~Accepted(q)
    /\ StartRerun(q)
    /\ calls' = NoCalls
    /\ outcome' = "none"
    /\ chat_msg' = "none"
    /\ sidebar' = SidebarAlready(script, db)
    /\ UNCHANGED <<script, env, form, db, built, chat_history, pc, escaped>>

\* A question arrives: the user Turn is appended, then the try block starts.
Submit(q) ==
    /\ pc = "Idle"
    /\ Accepted(q)
    /\ Len(chat_history) < MaxHistory
    /\ StartRerun(q)
    /\ calls' = NoCalls
    /\ chat_history' = Append(chat_history, HumanMessage(q))
    /\ outcome' = "running"
    /\ chat_msg' = "none"
    /\ sidebar' = SidebarAlready(script, db)
    /\ pc' = "GetResponse"
    /\ UNCHANGED <<script, env, form, db, built, escaped>>

\* eg.py: st.session_state.db with no "db" key raises AttributeError before
\* get_response is entered.
SessionDbMissing ==
    /\ pc = "GetResponse"
    /\ script = "eg"
    /\ db.state = "missing"
    /\ Raise("AttributeError", "session_db")
    /\ UNCHANGED <<script, env, form, db, built, sidebar>>
    /\ UNCHANGED <<user_query, branch, query, schemaT, runT, run_arg, resp_input,
                   calls, len0>>

\* get_response: the regular branch builds the SQL chain and the response chain.
GetResponseRegular ==
    /\ pc = "GetResponse"
    /\ \/ script = "eg" /\ db.state # "missing"
       \/ script = "swipe" /\ ~IsReportRequest(user_query)
    /\ branch' = "regular"
    /\ pc' = "SqlSchema"
    /\ UNCHANGED <<script, env, form, db, built, sidebar, chat_history, escaped,
                   chat_msg, outcome, fail_stage>>
    /\ UNCHANGED <<user_query, query, schemaT, runT, run_arg, resp_input, calls, len0>>

\* get_response of swipe.py: the report branch.  The chain is built with
\* RunnablePassthrough.assign(chat_history = chat_history); only a chain that
\* was built is invoked, and its one completion call returns the report.
GetResponseReport(r) ==
    /\ pc = "GetResponse"
    /\ script = "swipe"
    /\ IsReportRequest(user_query)
    /\ branch' = "report"
    /\ IF CoerceToRunnable(ReportAssignArg)
       THEN /\ calls' = [calls EXCEPT !.report_llm = @ + 1]
            /\ IF r = Raises
               THEN Raise("ExternalError", "report_llm")
               ELSE /\ chat_history' = Append(chat_history, AIMessage(r))
                    /\ chat_msg' = "answer"
                    /\ outcome' = "answered"
                    /\ pc' = "Idle"
                    /\ UNCHANGED <<fail_stage, escaped>>
       ELSE /\ calls' = calls
            /\ Raise("TypeError", "report_chain")
    /\ UNCHANGED <<script, env, form, db, built, sidebar>>
    /\ UNCHANGED <<user_query, query, schemaT, runT, run_arg, resp_input, len0>>


-----------------------------------------------------------------------------
(* The regular branch: chain.invoke *)

pipelineFrame == <<script, env, form, db, built, sidebar, user_query, branch, len0>>

\* First assign, sql_chain: get_schema calls db.get_table_info().  With db
\* None the attribute lookup fails and no call is made.
SqlGetSchema(r) ==
    /\ pc = "SqlSchema"
    /\ IF ~HasDb(db)
       THEN /\ calls' = calls
            /\ Raise("AttributeError", "sql_schema")
       ELSE /\ calls' = [calls EXCEPT !.schema = @ + 1]
            /\ IF r = Error
               THEN Raise("ExternalError", "sql_schema")
               ELSE /\ pc' = "SqlLLM"
                    /\ UNCHANGED <<chat_history, chat_msg, outcome, fail_stage, escaped>>
    /\ UNCHANGED pipelineFrame
    /\ UNCHANGED <<query, schemaT, runT, run_arg, resp_input>>

\* A SQL chain whose failure is swallowed: the second assign runs all the same.
SqlCompleteSwallow(r) ==
    /\ pc = "SqlLLM"
    /\ calls' = [calls EXCEPT !.sql_llm = @ + 1]
    /\ query' = IF r = Raises THEN query ELSE r
    /\ pc' = "Assign"
    /\ schemaT' = "pending"
    /\ runT' = "pending"
    /\ UNCHANGED <<chat_history, chat_msg, outcome, fail_stage, escaped>>
    /\ UNCHANGED pipelineFrame
    /\ UNCHANGED <<run_arg, resp_input>>

\* sql_chain: prompt | llm | StrOutputParser().  The text the completion
\* service returns is the query, whatever it is; then the second assign
\* submits its steps to the pool.
SqlComplete(r) ==
    /\ pc = "SqlLLM"
    /\ calls' = [calls EXCEPT !.sql_llm = @ + 1]
    /\ IF r = Raises
       THEN /\ Raise("ExternalError", "sql_llm")
            /\ UNCHANGED <<query, schemaT, runT>>
       ELSE /\ query' = r
            /\ pc' = "Assign"
            /\ schemaT' = IF "schema" \in SecondAssignSteps THEN "pending" ELSE "skipped"
            /\ runT' = IF "response" \in SecondAssignSteps THEN "pending" ELSE "skipped"
            /\ UNCHANGED <<chat_history, chat_msg, outcome, fail_stage, escaped>>
    /\ UNCHANGED pipelineFrame
    /\ UNCHANGED <<run_arg, resp_input>>

\* schema = lambda _: db.get_table_info(), on its pool thread.
SchemaStart ==
    /\ pc = "Assign"
    /\ schemaT = "pending"
    /\ schemaT' = "running"
    /\ calls' = [calls EXCEPT !.schema = @ + 1]
    /\ UNCHANGED pipelineFrame
    /\ UNCHANGED <<pc, query, runT, run_arg, resp_input, chat_history, chat_msg,
                   outcome, fail_stage, escaped>>

SchemaEnd(r) ==
    /\ pc = "Assign"
    /\ schemaT = "running"
    /\ schemaT' = r
    /\ UNCHANGED pipelineFrame
    /\ UNCHANGED <<pc, query, runT, run_arg, resp_input, calls, chat_history,
                   chat_msg, outcome, fail_stage, escaped>>

\* response = lambda vars: db.run(vars["query"]), on its pool thread.
RunStart ==
    /\ pc = "Assign"
    /\ runT = "pending"
    /\ runT' = "running"
    /\ run_arg' = query
    /\ calls' = [calls EXCEPT !.run = @ + 1]
    /\ UNCHANGED pipelineFrame
    /\ UNCHANGED <<pc, query, schemaT, resp_input, chat_history, chat_msg,
                   outcome, fail_stage, escaped>>

RunEnd(r) ==
    /\ pc = "Assign"
    /\ runT = "running"
    /\ runT' = r
    /\ UNCHANGED pipelineFrame
    /\ UNCHANGED <<pc, query, schemaT, run_arg, resp_input, calls, chat_history,
                   chat_msg, outcome, fail_stage, escaped>>

ThreadDone(t) == t \in {"ok", Error, "skipped"}

\* RunnableParallel.invoke collects future.result() in the order of the keys
\* (schema, then response) and leaves the pool only when every task is done;
\* the first exception found is raised out of chain.invoke.
AssignJoin ==
    /\ pc = "Assign"
    /\ ThreadDone(schemaT)
    /\ ThreadDone(runT)
    /\ IF schemaT = Error
       THEN /\ Raise("ExternalError", "schema")
            /\ UNCHANGED resp_input
       ELSE IF runT = Error
       THEN /\ Raise("ExternalError", "run")
            /\ UNCHANGED resp_input
       ELSE /\ resp_input' = RowsText
            /\ pc' = "RespLLM"
            /\ UNCHANGED <<chat_history, chat_msg, outcome, fail_stage, escaped>>
    /\ UNCHANGED pipelineFrame
    /\ UNCHANGED <<query, schemaT, runT, run_arg, calls>>

\* prompt | llm | StrOutputParser() of the response chain, then the handler
\* shows the response and appends the assistant Turn.
RespComplete(r) ==
    /\ pc = "RespLLM"
    /\ calls' = [calls EXCEPT !.resp_llm = @ + 1]
    /\ IF r = Raises
       THEN Raise("ExternalError", "resp_llm")
       ELSE /\ chat_history' = Append(chat_history, AIMessage(r))
            /\ chat_msg' = "answer"
            /\ outcome' = "answered"
            /\ pc' = "Idle"
            /\ UNCHANGED <<fail_stage, escaped>>
    /\ UNCHANGED pipelineFrame
    /\ UNCHANGED <<query, schemaT, runT, run_arg, resp_input>>

-----------------------------------------------------------------------------
(* Specification *)

Next ==
    \/ \E f \in Forms : SetForm(f)
    \/ \E r \in {"ok", Error} : ConnectSwipe(r)
    \/ \E r \in {"ok", Error} : ConnectEg(r)
    \/ \E q \in Questions : SubmitBlank(q)
    \/ \E q \in Questions : Submit(q)
    \/ SessionDbMissing
    \/ GetResponseRegular
    \/ \E r \in AnswerTexts \cup {Raises} : GetResponseReport(r)
    \/ \E r \in {"ok", Error} : SqlGetSchema(r)
    \/ \E r \in SqlTexts \cup {Raises} : SqlComplete(r)
    \/ SchemaStart
    \/ \E r \in {"ok", Error} : SchemaEnd(r)
    \/ RunStart
    \/ \E r \in {"ok", Error} : RunEnd(r)
    \/ AssignJoin
    \/ \E r \in AnswerTexts \cup {Raises} : RespComplete(r)

Spec == Init /\ [][Next]_vars


-----------------------------------------------------------------------------
(* Vocabulary of the properties, stated without the code's own tests *)

UpperChar(c) ==
    CASE c = "g" -> "G" [] c = "e" -> "E" [] c = "n" -> "N" [] c = "r" -> "R"
      [] c = "a" -> "A" [] c = "t" -> "T" [] c = "p" -> "P" [] c = "o" -> "O"
      [] OTHER -> c

\* The text holds the phrase "generate report" as a substring, each letter in
\* either case.
HoldsPhraseAnyCase(q) ==
    \E i \in 0..(Len(q) - Len(ReportPhrase)) :
        \A k \in 1..Len(ReportPhrase) :
            q[i + k] \in {ReportPhrase[k], UpperChar(ReportPhrase[k])}

\* None, empty or whitespace only.
BlankQuestion(q) == q = PyNoneText \/ \A i \in 1..Len(q) : q[i] = " "

\* The running or last re-run handles a question on the regular path.
RegularTurn ==
    /\ ~BlankQuestion(user_query)
    /\ ~(script = "swipe" /\ HoldsPhraseAnyCase(user_query))

\* The running or last re-run handles a report request of swipe.py.
ReportTurn ==
    /\ script = "swipe"
    /\ ~BlankQuestion(user_query)
    /\ HoldsPhraseAnyCase(user_query)

\* The turn is over and the orchestrator is back in Idle.
TurnOver == pc = "Idle" /\ outcome \in {"answered", "failed"}

PipelineCalls ==
    calls.schema + calls.sql_llm + calls.run + calls.resp_llm + calls.report_llm

LastMessage == chat_history[Len(chat_history)]

\* SQL synthesis failed: the first schema fetch or the SQL completion raised.
SynthesisFailed == TurnOver /\ fail_stage \in {"sql_schema", "sql_llm"}

-----------------------------------------------------------------------------
(* C1 *)

\* C1: in a regular turn in which db.run raised, the turn is not aborted: the
\* error text is handed to the response prompt, the response completion is
\* called and the turn ends with an assistant Turn appended.
C1_ExecutionErrorForwarded ==
    (RegularTurn /\ TurnOver /\ runT = Error /\ schemaT = "ok")
        => /\ outcome = "answered"
           /\ resp_input # PyNoneText
           /\ calls.resp_llm = 1
           /\ LastMessage.role = "ai"

-----------------------------------------------------------------------------
(* C2 *)

\* C2: in swipe.py a turn whose question holds "generate report" in any
\* letter case makes no SQL completion call, no db.run call and no schema
\* call, and get_response takes the report branch only.
C2_ReportSkipsSql ==
    ReportTurn =>
        /\ calls.sql_llm = 0
        /\ calls.run = 0
        /\ calls.schema = 0
        /\ calls.resp_llm = 0
        /\ pc \in {"Idle", "GetResponse"}
        /\ branch = IF pc = "GetResponse" THEN "none" ELSE "report"

C2_Witness ==
    /\ ReportTurn
    /\ user_query = QReportMixed
    /\ TurnOver
    /\ branch = "report"

-----------------------------------------------------------------------------
(* C3 *)

\* C3: a completed regular turn leaves the transcript exactly 2 longer than
\* it was at submission, the user Turn first and the assistant Turn second; a
\* None, empty or blank question leaves the transcript as it was and makes no
\* external call of the pipeline.
C3_TurnAddsTwo ==
    /\ (RegularTurn /\ pc = "Idle" /\ outcome = "answered") =>
            /\ Len(chat_history) = len0 + 2
            /\ chat_history[len0 + 1] = HumanMessage(user_query)
            /\ chat_history[len0 + 2].role = "ai"
    /\ BlankQuestion(user_query) =>
            /\ pc = "Idle"
            /\ Len(chat_history) = len0
            /\ PipelineCalls = 0

C3_Witness ==
    /\ RegularTurn
    /\ pc = "Idle"
    /\ outcome = "answered"
    /\ len0 = 2
    /\ Len(chat_history) = 4

-----------------------------------------------------------------------------
(* C4 *)

\* C4 as stated: every regular turn calls db.get_table_info exactly twice,
\* whatever the outcome of the other calls.
C4_SchemaTwiceAlways == (RegularTurn /\ TurnOver) => calls.schema = 2

\* C4 as amended: a regular turn whose SQL synthesis returned a query calls
\* db.get_table_info exactly twice, whatever db.run, the second fetch and the
\* response completion do; a regular turn whose SQL synthesis failed calls it
\* at most once, and not at all when no handle is set.
C4_SchemaTwiceAfterSynthesis ==
    (RegularTurn /\ TurnOver) =>
        /\ query # PyNoneText => calls.schema = 2
        /\ query = PyNoneText => calls.schema <= 1
        /\ ~HasDb(db) => calls.schema = 0

C4_Witness ==
    /\ RegularTurn
    /\ TurnOver
    /\ fail_stage = "run"
    /\ calls.schema = 2

-----------------------------------------------------------------------------
(* C5 *)

\* C5: in swipe.py a report request makes exactly one completion call with
\* the report prompt, and the turn ends in Idle with the returned text
\* appended as an assistant Turn.
C5_ReportAnswered ==
    (ReportTurn /\ TurnOver) =>
        /\ calls.report_llm = 1
        /\ outcome = "answered"
        /\ Len(chat_history) = len0 + 2
        /\ LastMessage.role = "ai"

-----------------------------------------------------------------------------
(* C6 *)

\* C6 as stated: when SQL synthesis fails, an error Turn is recorded in the
\* transcript before the orchestrator returns to Idle.
C6_ErrorTurnRecorded ==
    (RegularTurn /\ SynthesisFailed) =>
        /\ Len(chat_history) = len0 + 2
        /\ LastMessage.role = "ai"

\* C6 as amended: when SQL synthesis fails, no Turn is recorded for the
\* failure: the transcript ends with the user Turn of the question, the
\* failure is shown as an error message and the orchestrator is in Idle.
C6_ErrorShownNotRecorded ==
    (RegularTurn /\ SynthesisFailed) =>
        /\ Len(chat_history) = len0 + 1
        /\ LastMessage = HumanMessage(user_query)
        /\ chat_msg = "error"
        /\ pc = "Idle"

C6_Witness ==
    /\ RegularTurn
    /\ SynthesisFailed
    /\ fail_stage = "sql_llm"
    /\ chat_msg = "error"

-----------------------------------------------------------------------------
(* C7 *)

\* C7: db.run is called only after the SQL completion of the same turn has
\* returned text, and with that text; a turn whose SQL synthesis failed calls
\* neither db.run nor the response completion.
C7_RunAfterSynthesis ==
    /\ calls.run > 0 =>
            /\ calls.sql_llm = 1
            /\ query # PyNoneText
            /\ run_arg = query
    /\ calls.resp_llm > 0 => calls.run = 1
    /\ (outcome = "failed" /\ fail_stage \in {"session_db", "sql_schema", "sql_llm"}) =>
            /\ calls.run = 0
            /\ calls.resp_llm = 0
            /\ runT = "idle"

C7_Witness ==
    /\ RegularTurn
    /\ pc = "Assign"
    /\ runT = "running"
    /\ calls.run = 1
    /\ calls.sql_llm = 1

-----------------------------------------------------------------------------
(* C8 *)

\* C8: an empty text returned for the SQL prompt counts as a failed
\* synthesis: it is never passed to db.run.
C8_EmptySqlNotExecuted == query = <<>> => (calls.run = 0 /\ run_arg # <<>>)

-----------------------------------------------------------------------------
(* C9 *)

\* C9: no exception leaves the chat handler, whichever external call fails
\* and also with no handle set: a failed turn ends in Idle with a message
\* shown to the user, and the next question is accepted.
C9_NoEscape ==
    /\ ~escaped
    /\ outcome = "failed" =>
            /\ pc = "Idle"
            /\ chat_msg = "error"
            /\ fail_stage # "none"
            /\ Len(chat_history) < MaxHistory => ENABLED Submit(QHi)

C9_Witness ==
    /\ script = "swipe"
    /\ RegularTurn
    /\ TurnOver
    /\ ~HasDb(db)
    /\ outcome = "failed"
    /\ fail_stage = "sql_schema"
    /\ len0 = 2

-----------------------------------------------------------------------------
(* C10 *)

\* C10: the URI init_database builds has exactly the five values of the form
\* it was called with: user, password, host, port and service_name.  Stated
\* for swipe.py started with no DB_* variable set, where nothing but the form
\* and the source can supply a value.
C10_UriFromForm ==
    (script = "swipe" /\ env = EnvUnset /\ built.called) =>
        built.uri = [user |-> built.args.User,
                     password |-> built.args.Password,
                     host |-> built.args.Host,
                     port |-> built.args.Port,
                     service_name |-> built.args.Service_Name]

-----------------------------------------------------------------------------
(* C11 *)

\* The external calls of the turn that have been made and have not returned.
\* The first schema fetch and the completion calls are made and return within
\* one step of the chain; the two steps of the second assign are the calls
\* that stay open across steps.
CallsInProgress ==
    (IF schemaT = "running" THEN 1 ELSE 0) + (IF runT = "running" THEN 1 ELSE 0)

\* C11: within one turn the external calls are made one after another: at no
\* moment are two of them in progress, in particular the second schema fetch
\* and db.run never overlap.
C11_OneCallAtATime == CallsInProgress <= 1

-----------------------------------------------------------------------------
(* C12 *)

\* In this step SQLDatabase.from_uri is called: calls.from_uri is 1 only in
\* the state a Connect re-run leaves after calling init_database.
ConnectionAttempted == calls'.from_uri = 1 /\ pc = "Idle" /\ pc' = "Idle"

\* C12: in swipe.py a connection is attempted only in a step taken with no
\* handle stored and all five form fields filled, and once a handle is stored
\* no step (Connect press, form edit, chat turn) attempts a connection,
\* replaces the handle or clears it.
C12_HandleAcquiredOnce ==
    [][script = "swipe" =>
          /\ ConnectionAttempted =>
                /\ db.state # "handle"
                /\ form.Host # "" /\ form.Port # "" /\ form.User # ""
                /\ form.Password # "" /\ form.Service_Name # ""
          /\ db.state = "handle" =>
                /\ db' = db
                /\ built' = built
                /\ ~ConnectionAttempted]_vars

\* A handle is stored, the form was edited after the connection and a later
\* regular turn was answered with the handle still the one that was built.
C12_Witness ==
    /\ script = "swipe"
    /\ db.state = "handle"
    /\ db.uri = built.uri
    /\ form # built.args
    /\ pc = "Idle"
    /\ outcome = "answered"
    /\ calls.schema = 2

=============================================================================
